---- MODULE Spec2Model ----
(***************************************************************************)
(* Model of mlfinlab/backtest_statistics/backtests.py, class               *)
(* CampbellBacktesting: the Haircut Sharpe Ratios algorithm.               *)
(*                                                                         *)
(* Two numeric layers are used.                                            *)
(*  - _parameter_calculation and the trial count num_trails are computed   *)
(*    in IEEE-754 binary64 (the arithmetic of Python floats and of         *)
(*    numpy.float64), bit for bit: round-to-nearest-even add, subtract,    *)
(*    multiply and divide on 53-bit significands.  Exponent overflow,      *)
(*    subnormals and signed zero do not arise for the values involved.     *)
(*  - p-values are exact rationals <<num, den>> (or NaN): the Holm and BHY *)
(*    recurrences only multiply, compare and select.                       *)
(***************************************************************************)
EXTENDS Integers, Sequences, FiniteSets, TLC

(***************************************************************************)
(* Natural numbers of arbitrary size: little-endian sequences of limbs in  *)
(* base 2^15, without leading zero limbs (<<>> is zero).                   *)
(***************************************************************************)
LimbBits == 3 * 5
Base == 2 ^ LimbBits

RECURSIVE Trim(_)
Trim(s) ==
  IF s = <<>> THEN s
  ELSE IF s[Len(s)] = 0 THEN Trim(SubSeq(s, 1, Len(s) - 1)) ELSE s

RECURSIVE BigOfInt(_)
BigOfInt(n) == IF n = 0 THEN <<>> ELSE <<n % Base>> \o BigOfInt(n \div Base)

RECURSIVE BigToInt(_)
BigToInt(s) == IF s = <<>> THEN 0 ELSE Head(s) + Base * BigToInt(Tail(s))

Limb(s, i) == IF i <= Len(s) THEN s[i] ELSE 0

Zeros(n) == [i \in 1..n |-> 0]

RECURSIVE BigAddC(_, _, _, _)
BigAddC(a, b, i, c) ==
  IF i > Len(a) /\ i > Len(b) THEN (IF c = 0 THEN <<>> ELSE <<c>>)
  ELSE LET t == Limb(a, i) + Limb(b, i) + c
       IN  <<t % Base>> \o BigAddC(a, b, i + 1, t \div Base)

BigAdd(a, b) == Trim(BigAddC(a, b, 1, 0))

RECURSIVE BigSubC(_, _, _, _)
BigSubC(a, b, i, br) ==
  IF i > Len(a) THEN <<>>
  ELSE LET t == Limb(a, i) - Limb(b, i) - br
       IN  IF t < 0 THEN <<t + Base>> \o BigSubC(a, b, i + 1, 1)
           ELSE <<t>> \o BigSubC(a, b, i + 1, 0)

\* a - b for a >= b
BigSub(a, b) == Trim(BigSubC(a, b, 1, 0))

RECURSIVE BigCmpAt(_, _, _)
BigCmpAt(a, b, i) ==
  IF i = 0 THEN 0
  ELSE IF a[i] > b[i] THEN 1
  ELSE IF a[i] < b[i] THEN -1
  ELSE BigCmpAt(a, b, i - 1)

BigCmp(a, b) ==
  IF Len(a) > Len(b) THEN 1
  ELSE IF Len(a) < Len(b) THEN -1
  ELSE BigCmpAt(a, b, Len(a))

RECURSIVE BigMulSmallC(_, _, _, _)
BigMulSmallC(a, k, i, c) ==
  IF i > Len(a) THEN (IF c = 0 THEN <<>> ELSE <<c>>)
  ELSE LET t == a[i] * k + c
       IN  <<t % Base>> \o BigMulSmallC(a, k, i + 1, t \div Base)

\* a * k for 0 <= k < Base
BigMulSmall(a, k) == IF k = 0 THEN <<>> ELSE BigMulSmallC(a, k, 1, 0)

RECURSIVE BigMulAt(_, _, _)
BigMulAt(a, b, i) ==
  IF i > Len(b) THEN <<>>
  ELSE BigAdd(Zeros(i - 1) \o BigMulSmall(a, b[i]), BigMulAt(a, b, i + 1))

BigMul(a, b) == Trim(BigMulAt(a, b, 1))

RECURSIVE BigDivSmallAt(_, _, _, _)
BigDivSmallAt(a, k, i, r) ==
  IF i = 0 THEN <<>>
  ELSE LET cur == r * Base + a[i]
       IN  BigDivSmallAt(a, k, i - 1, cur % k) \o <<cur \div k>>

\* floor(a / k) for 0 < k < Base
BigDivSmall(a, k) == Trim(BigDivSmallAt(a, k, Len(a), 0))

\* a * 2^n
BigShl(a, n) ==
  IF a = <<>> THEN <<>>
  ELSE Zeros(n \div LimbBits) \o BigMulSmall(a, 2 ^ (n % LimbBits))

\* floor(a / 2^n)
BigShr(a, n) ==
  IF n \div LimbBits >= Len(a) THEN <<>>
  ELSE BigDivSmall(SubSeq(a, n \div LimbBits + 1, Len(a)), 2 ^ (n % LimbBits))

RECURSIVE SmallBitLen(_)
SmallBitLen(x) == IF x = 0 THEN 0 ELSE 1 + SmallBitLen(x \div 2)

BitLen(a) ==
  IF a = <<>> THEN 0 ELSE LimbBits * (Len(a) - 1) + SmallBitLen(a[Len(a)])

\* bit i of a, bit 0 the least significant
BigBit(a, i) == (Limb(a, i \div LimbBits + 1) \div (2 ^ (i % LimbBits))) % 2

RECURSIVE BigDigit(_, _, _, _)
\* the largest d < Base with b * d <= r, found bit by bit from bit `bit` down
BigDigit(r, b, bit, d) ==
  IF bit < 0 THEN d
  ELSE IF BigCmp(BigMulSmall(b, d + 2 ^ bit), r) <= 0
       THEN BigDigit(r, b, bit - 1, d + 2 ^ bit)
       ELSE BigDigit(r, b, bit - 1, d)

RECURSIVE BigDivAt(_, _, _, _)
BigDivAt(a, b, i, r) ==
  IF i = 0 THEN [q |-> <<>>, r |-> r]
  ELSE LET r1  == Trim(<<a[i]>> \o r)
           d   == BigDigit(r1, b, LimbBits - 1, 0)
           rec == BigDivAt(a, b, i - 1, BigSub(r1, BigMulSmall(b, d)))
       IN  [q |-> rec.q \o <<d>>, r |-> rec.r]

\* quotient and remainder of a by b > 0 (long division, one limb at a time)
BigDivMod(a, b) ==
  LET d == BigDivAt(a, b, Len(a), <<>>) IN [q |-> Trim(d.q), r |-> d.r]

(***************************************************************************)
(* binary64 values: [neg, m, e] is (-1)^neg * m * 2^e with m a 53-bit      *)
(* significand (2^52 <= m < 2^53), or m = <<>> for zero.                   *)
(***************************************************************************)
Prec == 53

FZero == [neg |-> FALSE, m |-> <<>>, e |-> 0]

\* the binary64 nearest to (-1)^neg * (m + f) * 2^e, where 0 <= f < 1 and
\* sticky says f > 0; ties go to the even significand
RoundPack(neg, m, e, sticky) ==
  IF m = <<>> THEN FZero
  ELSE LET L == BitLen(m) IN
    IF L <= Prec
    THEN [neg |-> neg, m |-> BigShl(m, Prec - L), e |-> e - (Prec - L)]
    ELSE LET sh   == L - Prec
             q    == BigShr(m, sh)
             rem  == BigSub(m, BigShl(q, sh))
             c    == BigCmp(rem, BigShl(<<1>>, sh - 1))
             up   == c > 0 \/ (c = 0 /\ (sticky \/ BigBit(q, 0) = 1))
             q1   == IF up THEN BigAdd(q, <<1>>) ELSE q
         IN  IF BitLen(q1) > Prec
             THEN [neg |-> neg, m |-> BigShr(q1, 1), e |-> e + sh + 1]
             ELSE [neg |-> neg, m |-> q1, e |-> e + sh]

FromInt(k) ==
  IF k = 0 THEN FZero
  ELSE RoundPack(k < 0, BigOfInt(IF k < 0 THEN -k ELSE k), 0, FALSE)

FNeg(a) == IF a.m = <<>> THEN a ELSE [a EXCEPT !.neg = ~a.neg]

FMul(a, b) ==
  IF a.m = <<>> \/ b.m = <<>> THEN FZero
  ELSE RoundPack(a.neg # b.neg, BigMul(a.m, b.m), a.e + b.e, FALSE)

\* a / b for b # 0
FDiv(a, b) ==
  IF a.m = <<>> THEN FZero
  ELSE LET d == BigDivMod(BigShl(a.m, Prec + 2), b.m)
       IN  RoundPack(a.neg # b.neg, d.q, a.e - b.e - (Prec + 2), d.r # <<>>)

FAdd(a, b) ==
  IF a.m = <<>> THEN b
  ELSE IF b.m = <<>> THEN a
  ELSE LET e  == IF a.e < b.e THEN a.e ELSE b.e
           ma == BigShl(a.m, a.e - e)
           mb == BigShl(b.m, b.e - e)
           c  == BigCmp(ma, mb)
       IN  IF a.neg = b.neg THEN RoundPack(a.neg, BigAdd(ma, mb), e, FALSE)
           ELSE IF c = 0 THEN FZero
           ELSE IF c > 0 THEN RoundPack(a.neg, BigSub(ma, mb), e, FALSE)
           ELSE RoundPack(b.neg, BigSub(mb, ma), e, FALSE)

FSub(a, b) == FAdd(a, FNeg(b))

\* a < b: by sign, then exponent, then significand (both are normalized)
FLt(a, b) ==
  IF a.m = <<>> THEN b.m # <<>> /\ ~b.neg
  ELSE IF b.m = <<>> THEN a.neg
  ELSE IF a.neg # b.neg THEN a.neg
  ELSE LET below == a.e < b.e \/ (a.e = b.e /\ BigCmp(a.m, b.m) < 0)
           above == a.e > b.e \/ (a.e = b.e /\ BigCmp(a.m, b.m) > 0)
       IN  IF a.neg THEN above ELSE below

FLe(a, b) == ~FLt(b, a)

FAbs(a) == [a EXCEPT !.neg = FALSE]

\* numpy.floor of a binary64, as an integer (|a| < 2^31)
FFloor(a) ==
  IF a.m = <<>> THEN 0
  ELSE IF a.e >= 0 THEN (IF a.neg THEN -1 ELSE 1) * BigToInt(BigShl(a.m, a.e))
  ELSE LET q     == BigShr(a.m, -a.e)
           exact == BigShl(q, -a.e) = a.m
       IN  IF ~a.neg THEN BigToInt(q)
           ELSE IF exact THEN -BigToInt(q) ELSE -BigToInt(q) - 1

\* the binary64 a decimal literal n/d denotes (n and d exactly representable)
Lit(n, d) == FDiv(FromInt(n), FromInt(d))

(***************************************************************************)
(* _parameter_calculation (lines 88-122).  rho is a binary64.  The array   *)
(* of line 100 is built once and then only read: it is kept in the state   *)
(* (variable parameter_levels), set at the start to ParameterLevels.       *)
(***************************************************************************)
VARIABLE parameter_levels

\* Levels of parameters based on rho: [rho, n_simulations, prob_zero_mean, lambd]
ParameterLevels ==
  << << FromInt(0), FromInt(1295),
        FMul(Lit(39660, 10000), Lit(1, 10)), FMul(Lit(54995, 10000), Lit(1, 1000)) >>,
     << Lit(2, 10), FromInt(1377),
        FMul(Lit(44589, 10000), Lit(1, 10)), FMul(Lit(55508, 10000), Lit(1, 1000)) >>,
     << Lit(4, 10), FromInt(1476),
        FMul(Lit(48604, 10000), Lit(1, 10)), FMul(Lit(55413, 10000), Lit(1, 1000)) >>,
     << Lit(6, 10), FromInt(1773),
        FMul(Lit(59902, 10000), Lit(1, 10)), FMul(Lit(55512, 10000), Lit(1, 1000)) >>,
     << Lit(8, 10), FromInt(3109),
        FMul(Lit(83901, 10000), Lit(1, 10)), FMul(Lit(55956, 10000), Lit(1, 1000)) >> >>

\* the decimal literals 0.2, 0.4, 0.6, 0.8 of the interpolation are the same
\* binary64 values as the literals of the array's first column
F02 == parameter_levels[2][1]
F04 == parameter_levels[3][1]
F06 == parameter_levels[4][1]
F08 == parameter_levels[5][1]
F10 == FromInt(1)

\* w1 * row1 + w2 * row2, element by element (numpy broadcasting)
\* mutant: the two weights exchanged
InterpolateSwapped(w1, row1, w2, row2) ==
  [c \in 1..4 |-> FAdd(FMul(w2, row1[c]), FMul(w1, row2[c]))]

Interpolate(w1, row1, w2, row2) ==
  [c \in 1..4 |-> FAdd(FMul(w1, row1[c]), FMul(w2, row2[c]))]

_parameter_calculation(rho) ==
  IF FLt(rho, FZero) THEN parameter_levels[2]
  ELSE IF FLt(rho, F02)
       THEN Interpolate(FDiv(FSub(F02, rho), F02), parameter_levels[1],
                        FDiv(FSub(rho, FZero), F02), parameter_levels[2])
  ELSE IF FLt(rho, F04)
       THEN Interpolate(FDiv(FSub(F04, rho), F02), parameter_levels[2],
                        FDiv(FSub(rho, F02), F02), parameter_levels[3])
  ELSE IF FLt(rho, F06)
       THEN Interpolate(FDiv(FSub(F06, rho), F02), parameter_levels[3],
                        FDiv(FSub(rho, F04), F02), parameter_levels[4])
  ELSE IF FLt(rho, F08)
       THEN Interpolate(FDiv(FSub(F08, rho), F02), parameter_levels[4],
                        FDiv(FSub(rho, F06), F02), parameter_levels[5])
  ELSE IF FLt(rho, F10)
       THEN Interpolate(FDiv(FSub(F08, rho), F02), parameter_levels[4],
                        FDiv(FSub(rho, F06), F02), parameter_levels[5])
  ELSE parameter_levels[2]

(***************************************************************************)
(* p-values: exact rationals <<num, den>> with den > 0, or NaN.            *)
(***************************************************************************)
NaN == "nan"

R(n, d) == <<n, d>>
RZero == R(0, 1)
ROne == R(1, 1)

\* Python and numpy comparisons: every comparison with NaN is false
RLt(a, b) == a # NaN /\ b # NaN /\ a[1] * b[2] < b[1] * a[2]
REq(a, b) == a # NaN /\ b # NaN /\ a[1] * b[2] = b[1] * a[2]
RLe(a, b) == RLt(a, b) \/ REq(a, b)

RMul(a, b) == IF a = NaN \/ b = NaN THEN NaN ELSE R(a[1] * b[1], a[2] * b[2])
RAdd(a, b) ==
  IF a = NaN \/ b = NaN THEN NaN ELSE R(a[1] * b[2] + b[1] * a[2], a[2] * b[2])
\* a / k for an integer k > 0
RDivInt(a, k) == IF a = NaN THEN NaN ELSE R(a[1], a[2] * k)

\* Python's built-in min(a, b) and max over an array: the first argument
\* stays unless a later one compares strictly smaller (larger)
PyMin(a, b) == IF RLt(b, a) THEN b ELSE a

RECURSIVE PyMaxFrom(_, _, _)
PyMaxFrom(s, i, best) ==
  IF i > Len(s) THEN best
  ELSE PyMaxFrom(s, i + 1, IF RLt(best, s[i]) THEN s[i] ELSE best)

PyMax(s) == PyMaxFrom(s, 2, s[1])

\* numpy.minimum: NaN propagates
NpMinimum(a, b) == IF a = NaN \/ b = NaN THEN NaN ELSE IF RLt(b, a) THEN b ELSE a

\* numpy.sort: ascending, NaN last
RECURSIVE SortInsert(_, _)
SortInsert(s, x) ==
  IF s = <<>> THEN <<x>>
  ELSE IF x # NaN /\ (Head(s) = NaN \/ RLt(x, Head(s))) THEN <<x>> \o s
  ELSE <<Head(s)>> \o SortInsert(Tail(s), x)

RECURSIVE NpSort(_)
NpSort(s) == IF s = <<>> THEN <<>> ELSE SortInsert(NpSort(Tail(s)), Head(s))

\* numpy.median of a non-empty array
NpMedian(s) ==
  LET t == NpSort(s)
      n == Len(t)
  IN  IF \E i \in 1..n : t[i] = NaN THEN NaN
      ELSE IF n % 2 = 1 THEN t[(n + 1) \div 2]
      ELSE RDivInt(RAdd(t[n \div 2], t[n \div 2 + 1]), 2)

\* boolean-mask selection values[mask == p_val], in index order
RECURSIVE MaskSelect(_, _, _, _)
MaskSelect(values, all_p_values, p_val, i) ==
  IF i > Len(all_p_values) THEN <<>>
  ELSE (IF REq(all_p_values[i], p_val) THEN <<values[i]>> ELSE <<>>)
       \o MaskSelect(values, all_p_values, p_val, i + 1)

(***************************************************************************)
(* _holm_method (lines 199-225).  The result is [ok |-> TRUE, values,      *)
(* result] or [ok |-> FALSE, error].                                       *)
(***************************************************************************)
\* mutant: the multiplier M - j + 1 of the paper, one less than the code's
HolmAdjustedPaper(all_p_values, num_mult_test, i) ==
  [j \in 1..i |-> RMul(R(num_mult_test + 1 - j, 1), all_p_values[j])]

\* lines 213-217: the inner loop over j = 1..i
HolmAdjusted(all_p_values, num_mult_test, i) ==
  [j \in 1..i |-> RMul(R(num_mult_test + 1 - j + 1, 1), all_p_values[j])]

\* lines 209-219: the outer loop over i = 1..num_mult_test + 1
HolmValues(all_p_values, num_mult_test) ==
  [i \in 1..(num_mult_test + 1) |->
     PyMin(PyMax(HolmAdjusted(all_p_values, num_mult_test, i)), ROne)]

_holm_method(all_p_values, num_mult_test, p_val) ==
  IF Len(all_p_values) < num_mult_test + 1
  THEN [ok |-> FALSE, error |-> "IndexError"]       \* all_p_values[j - 1]
  ELSE LET p_holm_values == HolmValues(all_p_values, num_mult_test)
       IN  IF Len(all_p_values) # Len(p_holm_values)
           THEN [ok |-> FALSE, error |-> "IndexError"]  \* mask of another length
           ELSE LET p_holm_significant ==
                      MaskSelect(p_holm_values, all_p_values, p_val, 1)
                IN  IF p_holm_significant = <<>>
                    THEN [ok |-> FALSE, error |-> "IndexError"]  \* [0] of empty
                    ELSE [ok |-> TRUE, values |-> p_holm_values,
                          result |-> p_holm_significant[1]]

(***************************************************************************)
(* _bhy_method (lines 228-261).  The result is the selected ARRAY.         *)
(***************************************************************************)
\* mutant: no dependence correction (c = 1, plain Benjamini-Hochberg)
c_constant_one(num_mult_test) == ROne

\* lines 242-243: sum(1 / index_vector)
RECURSIVE c_constant(_)
c_constant(num_mult_test) ==
  IF num_mult_test <= 0 THEN RZero
  ELSE RAdd(c_constant(num_mult_test - 1), R(1, num_mult_test))

\* lines 246-255: ranks from num_mult_test + 1 down to i, newest value first
RECURSIVE BhyValuesFrom(_, _, _)
BhyValuesFrom(all_p_values, num_mult_test, i) ==
  IF i = num_mult_test + 1 THEN << all_p_values[Len(all_p_values)] >>
  ELSE LET above == BhyValuesFrom(all_p_values, num_mult_test, i + 1)
           p_previous == above[1]
           factor == RDivInt(RMul(R(num_mult_test + 1, 1),
                                  c_constant(num_mult_test)), i)
       IN  << PyMin(RMul(factor, all_p_values[i]), p_previous) >> \o above

BhyValues(all_p_values, num_mult_test) ==
  IF num_mult_test + 1 < 1 THEN <<>>
  ELSE BhyValuesFrom(all_p_values, num_mult_test, 1)

_bhy_method(all_p_values, num_mult_test, p_val) ==
  IF Len(all_p_values) < num_mult_test + 1
  THEN [ok |-> FALSE, error |-> "IndexError"]
  ELSE LET p_bhy_values == BhyValues(all_p_values, num_mult_test)
       IN  IF Len(all_p_values) # Len(p_bhy_values)
           THEN [ok |-> FALSE, error |-> "IndexError"]
           ELSE [ok |-> TRUE, values |-> p_bhy_values,
                 result |-> MaskSelect(p_bhy_values, all_p_values, p_val, 1)]

(***************************************************************************)
(* Sharpe ratios are carried by their sign (-1, 0, 1): the square roots    *)
(* and the power -0.5 of _annualized_sharpe_ratio are positive factors, so *)
(* the sign is what decides a zero divisor and the side of the t CDF.      *)
(* Correlations are given in thousandths.                                  *)
(***************************************************************************)
Sign(x) == IF x > 0 THEN 1 ELSE IF x < 0 THEN -1 ELSE 0

\* lines 141-153
times_per_year(sampling_frequency) ==
  IF sampling_frequency = "D" THEN 360
  ELSE IF sampling_frequency = "W" THEN 52
  ELSE IF sampling_frequency = "M" THEN 12
  ELSE IF sampling_frequency = "Q" THEN 4
  ELSE IF sampling_frequency = "A" THEN 1
  ELSE 1

\* lines 125-170; rho in [0, 1]: 2 * rho / (1 - rho) divides by zero at rho = 1
_annualized_sharpe_ratio(sharpe_ratio, sampling_frequency, rho, annualized, autocorr_adjusted) ==
  LET annual_multiplier ==
        IF ~annualized THEN Sign(times_per_year(sampling_frequency)) ELSE 1
  IN  IF ~autocorr_adjusted /\ 1000 - rho = 0
      THEN [ok |-> FALSE, error |-> "ZeroDivisionError"]
      ELSE LET autocorr_multiplier == 1
           IN  [ok |-> TRUE,
                value |-> Sign(sharpe_ratio) * annual_multiplier * autocorr_multiplier]

\* lines 173-196: numpy.floor of a binary64 quotient
_monthly_observations(num_obs, sampling_frequency) ==
  IF sampling_frequency = "D" THEN FFloor(FDiv(FromInt(num_obs * 12), FromInt(360)))
  ELSE IF sampling_frequency = "W" THEN FFloor(FDiv(FromInt(num_obs * 12), FromInt(52)))
  ELSE IF sampling_frequency = "M" THEN FFloor(FDiv(FromInt(num_obs * 12), FromInt(12)))
  ELSE IF sampling_frequency = "Q" THEN FFloor(FDiv(FromInt(num_obs * 12), FromInt(4)))
  ELSE IF sampling_frequency = "A" THEN FFloor(FDiv(FromInt(num_obs * 12), FromInt(1)))
  ELSE FFloor(FromInt(num_obs))

\* mutant: the block count without its + 1
NumTrailsWholeBlocks(num_mult_test, parameters) ==
  FFloor(FDiv(FromInt(num_mult_test), parameters[2]))
    * FFloor(FAdd(parameters[2], FromInt(1)))

\* line 320
NumTrails(num_mult_test, parameters) ==
  (FFloor(FDiv(FromInt(num_mult_test), parameters[2])) + 1)
    * FFloor(FAdd(parameters[2], FromInt(1)))

\* line 342: the column indices (from 0) that the slice 1:(num_mult_test + 1)
\* selects from a row of num_trails columns; numpy truncates a slice silently
SliceColumns(num_trails, num_mult_test) ==
  {c \in 1..num_mult_test : c <= num_trails - 1}

\* the columns of a set, in ascending order
RECURSIVE Ascending(_)
Ascending(S) ==
  IF S = {} THEN <<>>
  ELSE LET lo == CHOOSE x \in S : \A y \in S : x <= y
       IN  <<lo>> \o Ascending(S \ {lo})

(***************************************************************************)
(* scipy.stats, by contract.  t-statistics of the panel are given in       *)
(* hundredths; 1 - cdf is exactly 0.0 once cdf has rounded to 1.0.         *)
(***************************************************************************)
\* line 344: 2 * (1 - ss.norm.cdf(t, 0, 1)), tabulated to two digits
NormTwoSided(t) ==
  IF t >= 900 THEN RZero
  ELSE IF t = 115 THEN R(1, 4)
  ELSE ROne

\* the t-statistics a panel entry is drawn from
TLevels == {115, 900}

\* line 327-329: the values 2 * (1 - ss.t.cdf(t_ratio, monthly_obs - 1)) can
\* take, given the sign of t_ratio: NaN without positive degrees of freedom
\* (and for the square root of a negative monthly_obs), 1 at t_ratio = 0
\* (cdf = 0.5), below 1 for t_ratio > 0 and above 1 for t_ratio < 0
PValues(sr_monthly, monthly_obs) ==
  IF monthly_obs - 1 <= 0 THEN {NaN}
  ELSE IF sr_monthly = 0 THEN {ROne}
  ELSE IF sr_monthly > 0 THEN {RZero, R(1, 8)}
  ELSE {R(15, 8), R(2, 1)}

\* line 274-277: the class of ss.t.ppf(1 - p_val / 2, monthly_obs - 1) scaled by
\* positive factors: "nan", "+inf", "pos", "zero", "neg" or "-inf"
AdjustedClass(p_val, monthly_obs) ==
  IF p_val = NaN \/ monthly_obs - 1 <= 0 THEN "nan"
  ELSE IF RLt(p_val, RZero) \/ RLt(R(2, 1), p_val) THEN "nan"
  ELSE IF REq(p_val, RZero) THEN "+inf"
  ELSE IF RLt(p_val, ROne) THEN "pos"
  ELSE IF REq(p_val, ROne) THEN "zero"
  ELSE IF RLt(p_val, R(2, 1)) THEN "neg"
  ELSE "-inf"

\* line 280: (sr_annual - sr_adjusted) / sr_annual * 100 on numpy.float64:
\* a zero divisor gives NaN (0 / 0) or an infinity, never an exception
HaircutClass(sr_adjusted, sr_annual) ==
  IF sr_adjusted = "nan" THEN "nan"
  ELSE IF sr_annual = 0
       THEN (IF sr_adjusted = "zero" THEN "nan"
             ELSE IF sr_adjusted \in {"pos", "+inf"} THEN "-inf" ELSE "+inf")
  ELSE IF sr_adjusted = "+inf" THEN (IF sr_annual > 0 THEN "-inf" ELSE "+inf")
  ELSE IF sr_adjusted = "-inf" THEN (IF sr_annual > 0 THEN "+inf" ELSE "-inf")
  ELSE "finite"

\* line 361: np.minimum(num_mult_test * p_val, 1)
Bonferroni(num_mult_test, p_val) ==
  NpMinimum(RMul(R(num_mult_test, 1), p_val), ROne)

\* lines 264-282
_sharpe_ratio_haircut(p_val, monthly_obs, sr_annual) ==
  LET sr_adjusted == AdjustedClass(p_val, monthly_obs)
  IN  <<sr_adjusted, HaircutClass(sr_adjusted, sr_annual)>>

(***************************************************************************)
(* Bounds and input sets.                                                  *)
(***************************************************************************)
\* self.simulations (2000 in the code, line 26), scaled down
simulations == 2
\* the largest num_mult_test run through the Monte Carlo loop
MaxMultTest == 2
\* the widest gap, in thousandths, probed on either side of a table anchor
MaxGap == 3
\* the multiples of a table trial count around which num_mult_test is drawn
MaxBlocks == 2

\* "X" stands for a value that is none of the five codes
Frequencies == {"D", "M", "A", "X"}
NumObs == {-30, 0, 60}
SharpeRatios == {-1, 0, 1}
AutoCorrs == {0, 1000}
MultTests == -1..MaxMultTest
AvgCorrs == {400}

AllArgs ==
  [sampling_frequency : Frequencies, num_obs : NumObs, sharpe_ratio : SharpeRatios,
   annualized : BOOLEAN, autocorr_adjusted : BOOLEAN, rho_a : AutoCorrs,
   num_mult_test : MultTests, rho : AvgCorrs]

\* The calls made: sharpe_ratio and num_mult_test take every combination; of
\* the other arguments at most one departs from the nominal call.
Nominal ==
  [sampling_frequency |-> "M", num_obs |-> 60, annualized |-> FALSE,
   autocorr_adjusted |-> FALSE, rho_a |-> 0]

Args ==
  {a \in AllArgs : Cardinality({f \in DOMAIN Nominal : a[f] # Nominal[f]}) <= 1}

\* avg_correlation inputs of the parameter study, in thousandths: the table
\* anchors, their neighbours, segment interiors and both fallback ranges
Anchors == {0, 200, 400, 600, 800}
RhoGrid ==
  {a + d : a \in Anchors, d \in -MaxGap..MaxGap}
    \cup {-100, 100, 300, 500, 700, 900, 999, 1000, 1001, 1200}

\* num_mult_test inputs of the parameter study: small counts and counts next
\* to the multiples of the trial counts the table and its midpoints produce
TrailBases == {1295, 1336, 1377, 1476, 1773, 3109}
TrailTests ==
  {1, 2} \cup {k * b + d : k \in 1..MaxBlocks, b \in TrailBases, d \in {-1, 0, 1}}

\* the calls of the parameter study: num_mult_test is drawn at line 320
ParamArgs ==
  [sampling_frequency : {"M"}, num_obs : {60}, sharpe_ratio : {1},
   annualized : {TRUE}, autocorr_adjusted : {TRUE}, rho_a : {0},
   num_mult_test : {1}, rho : RhoGrid]

(***************************************************************************)
(* haircut_sharpe_ratios (lines 284-377) as a state machine: one action    *)
(* per statement group, pc the position in the method.                     *)
(***************************************************************************)
VARIABLES
  pc,                   \* position in haircut_sharpe_ratios
  args,                 \* the arguments of the call
  sr_annual,            \* line 310 (sign)
  parameters,           \* line 314
  monthly_obs,          \* line 317
  num_trails,           \* line 320
  t_sample,             \* line 322: the shape <<rows, columns>> of the panel, <<>> before
  p_val,                \* line 329
  simulation_number,    \* line 336: the last repetition started
  t_row,                \* the entries of row simulation_number - 1, by column
  t_values_simulation,  \* line 342
  all_p_values,         \* line 350
  p_holm_values,        \* _holm_method's array, line 219
  p_bhy_values,         \* _bhy_method's array, line 254
  p_holm,               \* line 332, 353
  p_bhy,                \* line 333, 356
  results,              \* line 373
  error                 \* the exception that ended the call, or "none"

vars == <<parameter_levels, pc, args, sr_annual, parameters, monthly_obs, num_trails, t_sample, p_val,
          simulation_number, t_row, t_values_simulation, all_p_values,
          p_holm_values, p_bhy_values, p_holm, p_bhy, results, error>>

loopVars == <<simulation_number, t_row, t_values_simulation, all_p_values,
              p_holm_values, p_bhy_values, p_holm, p_bhy>>

Start(a) ==
  /\ pc = "normalize"
  /\ args = a
  /\ sr_annual = 0
  /\ parameters = <<>>
  /\ monthly_obs = 0
  /\ num_trails = 0
  /\ t_sample = <<>>
  /\ p_val = NaN
  /\ simulation_number = 0
  /\ t_row = <<>>
  /\ t_values_simulation = <<>>
  /\ all_p_values = <<>>
  /\ p_holm_values = <<>>
  /\ p_bhy_values = <<>>
  /\ p_holm = <<>>
  /\ p_bhy = <<>>
  /\ results = <<>>
  /\ error = "none"

Init ==
  /\ parameter_levels = ParameterLevels
  /\ \E a \in Args : Start(a)

InitParams ==
  /\ parameter_levels = ParameterLevels
  /\ \E a \in ParamArgs : Start(a)

Raise(e) ==
  /\ pc' = "raised"
  /\ error' = e

\* line 310
Normalize ==
  /\ pc = "normalize"
  /\ LET r == _annualized_sharpe_ratio(args.sharpe_ratio, args.sampling_frequency,
                                       args.rho_a, args.annualized,
                                       args.autocorr_adjusted)
     IN  IF r.ok
         THEN /\ sr_annual' = r.value
              /\ pc' = "parameters"
              /\ UNCHANGED error
         ELSE /\ Raise(r.error)
              /\ UNCHANGED sr_annual
  /\ UNCHANGED <<parameter_levels, args, parameters, monthly_obs, num_trails, t_sample, p_val,
                 loopVars, results>>

\* line 314
Parameters ==
  /\ pc = "parameters"
  /\ parameters' = _parameter_calculation(Lit(args.rho, 1000))
  /\ pc' = "trails"
  /\ UNCHANGED <<parameter_levels, args, sr_annual, monthly_obs, num_trails, t_sample, p_val,
                 loopVars, results, error>>

\* lines 317-320
Trails ==
  /\ pc = "trails"
  /\ monthly_obs' = _monthly_observations(args.num_obs, args.sampling_frequency)
  /\ num_trails' = NumTrails(args.num_mult_test, parameters)
  /\ pc' = "panel"
  /\ UNCHANGED <<parameter_levels, args, sr_annual, parameters, t_sample, p_val, loopVars, results,
                 error>>

\* line 322, _sample_random_multest: numpy.ones((1, n_trails - 1)) raises for a
\* negative dimension; otherwise the panel has self.simulations rows of
\* n_trails entries.  Its entries are independent draws and each row is read
\* by one repetition only, so a row's entries are drawn where it is read.
Panel ==
  /\ pc = "panel"
  /\ IF num_trails - 1 < 0
     THEN /\ Raise("ValueError")
          /\ UNCHANGED t_sample
     ELSE /\ t_sample' = <<simulations, num_trails>>
          /\ pc' = "pvalue"
          /\ UNCHANGED error
  /\ UNCHANGED <<parameter_levels, args, sr_annual, parameters, monthly_obs, num_trails, p_val,
                 loopVars, results>>

\* lines 325-333
PValue ==
  /\ pc = "pvalue"
  /\ \E p \in PValues(sr_annual, monthly_obs) : p_val' = p
  /\ p_holm' = [i \in 1..simulations |-> ROne]
  /\ p_bhy' = [i \in 1..simulations |-> ROne]
  /\ pc' = "loop"
  /\ UNCHANGED <<parameter_levels, args, sr_annual, parameters, monthly_obs, num_trails, t_sample,
                 simulation_number, t_row, t_values_simulation, all_p_values,
                 p_holm_values, p_bhy_values, results, error>>

\* the columns of a panel row the slice of line 342 can reach, and column 0
RowWindow == 0..(IF args.num_mult_test < num_trails - 1
                 THEN args.num_mult_test ELSE num_trails - 1)

\* lines 336-356: one pass of the loop body
Repetition ==
  /\ pc = "loop"
  /\ simulation_number < simulations
  /\ simulation_number' = simulation_number + 1
  /\ \E row \in [RowWindow -> TLevels] :
       LET cols == Ascending(SliceColumns(num_trails, args.num_mult_test))
           slice == [i \in 1..Len(cols) |-> row[cols[i]]]
           p_values_simulation == [i \in 1..Len(slice) |-> NormTwoSided(slice[i])]
           sorted == NpSort(Append(p_values_simulation, p_val))
           holm == _holm_method(sorted, args.num_mult_test, p_val)
           bhy == _bhy_method(sorted, args.num_mult_test, p_val)
       IN  /\ t_row' = row
           /\ t_values_simulation' = slice
           /\ all_p_values' = sorted
           /\ IF ~holm.ok
              THEN /\ Raise(holm.error)
                   /\ UNCHANGED <<p_holm_values, p_bhy_values, p_holm, p_bhy>>
              ELSE /\ p_holm_values' = holm.values
                   /\ p_holm' = [p_holm EXCEPT ![simulation_number + 1] = holm.result]
                   /\ IF ~bhy.ok
                      THEN /\ Raise(bhy.error)
                           /\ UNCHANGED <<p_bhy_values, p_bhy>>
                      ELSE /\ p_bhy_values' = bhy.values
                           /\ IF Len(bhy.result) # 1
                              \* an array of several elements assigned to one slot
                              THEN /\ Raise("ValueError")
                                   /\ UNCHANGED p_bhy
                              ELSE /\ p_bhy' = [p_bhy EXCEPT
                                                  ![simulation_number + 1] = bhy.result[1]]
                                   /\ UNCHANGED <<pc, error>>
  /\ UNCHANGED <<parameter_levels, args, sr_annual, parameters, monthly_obs, num_trails, t_sample,
                 p_val, results>>

\* lines 358-377
Finish ==
  /\ pc = "loop"
  /\ simulation_number = simulations
  /\ LET bonferroni == Bonferroni(args.num_mult_test, p_val)
         holm == NpMedian(p_holm)
         bhy == NpMedian(p_bhy)
         p_val_adj == <<bonferroni, holm, bhy,
                        RDivInt(RAdd(RAdd(bonferroni, holm), bhy), 3)>>
         adj == [m \in 1..4 |-> _sharpe_ratio_haircut(p_val_adj[m], monthly_obs, sr_annual)]
     IN  results' = << p_val_adj, [m \in 1..4 |-> adj[m][1]], [m \in 1..4 |-> adj[m][2]] >>
  /\ pc' = "returned"
  /\ UNCHANGED <<parameter_levels, args, sr_annual, parameters, monthly_obs, num_trails, t_sample,
                 p_val, loopVars, error>>

Next == Normalize \/ Parameters \/ Trails \/ Panel \/ PValue \/ Repetition \/ Finish

Spec == Init /\ [][Next]_vars

\* lines 317-320 for each num_mult_test of the parameter study
TrailsOf ==
  /\ pc = "trails"
  /\ \E m \in TrailTests :
       /\ args' = [args EXCEPT !.num_mult_test = m]
       /\ num_trails' = NumTrails(m, parameters)
  /\ monthly_obs' = _monthly_observations(args.num_obs, args.sampling_frequency)
  /\ pc' = "panel"
  /\ UNCHANGED <<parameter_levels, sr_annual, parameters, t_sample, p_val, loopVars,
                 results, error>>

\* the orchestrator up to the trial count, over the grid of avg_correlation
\* and num_mult_test inputs
NextParams == Normalize \/ Parameters \/ TrailsOf

SpecParams == InitParams /\ [][NextParams]_vars

(***************************************************************************)
(* The claims.                                                             *)
(***************************************************************************)
\* spec section 7: the inputs the specification calls invalid
InvalidInput(a) ==
  \/ a.sharpe_ratio = 0
  \/ (a.rho_a = 1000 /\ ~a.autocorr_adjusted)
  \/ a.num_obs <= 0
  \/ a.num_mult_test <= 0

\* C1: a call with sharpe_ratio = 0, positive num_obs and positive
\* num_mult_test ends in the precondition error: it never returns a result
\* table (so never one with NaN or infinite haircut entries).
C1_ZeroSharpeNeverReturns ==
  (args.sharpe_ratio = 0 /\ args.num_obs > 0 /\ args.num_mult_test > 0)
    => pc # "returned"

\* C2: a call with an invalid input (zero Sharpe ratio, autocorrelation 1 with
\* the adjustment pending, non-positive num_obs or num_mult_test) raises before
\* the panel is generated and before any repetition runs, and returns no table.
C2_InvalidInputFailsFast ==
  InvalidInput(args)
    => (t_sample = <<>> /\ simulation_number = 0 /\ pc # "returned")

\* C3: for the raw p-value the orchestrator derives from valid inputs and a
\* positive num_mult_test, the Bonferroni value min(num_mult_test * p_val, 1)
\* is at least p_val, at most 1, and does not decrease as num_mult_test grows.
C3_BonferroniBounds ==
  (pc \in {"loop", "returned"} /\ ~InvalidInput(args))
    => /\ RLe(p_val, Bonferroni(args.num_mult_test, p_val))
       /\ RLe(Bonferroni(args.num_mult_test, p_val), ROne)
       /\ \A m \in 1..(MaxMultTest + 1) :
            m >= args.num_mult_test
              => RLe(Bonferroni(args.num_mult_test, p_val), Bonferroni(m, p_val))

\* the largest of (M - j + 2) * p_(j) over j = 1..i, capped at 1
HolmClosedForm(p, M, i) ==
  LET S  == {RMul(R(M - j + 2, 1), p[j]) : j \in 1..i}
      mx == CHOOSE x \in S : \A y \in S : RLe(y, x)
  IN  IF RLt(ROne, mx) THEN ROne ELSE mx

Ascends(p) == \A i \in 1..(Len(p) - 1) : RLe(p[i], p[i + 1])

\* C4: for the ascending sequence of M + 1 p-values of a repetition, the Holm
\* array has M + 1 entries, entry i is min(max over j <= i of
\* (M - j + 2) * p_(j), 1), and the array is non-decreasing with entries <= 1.
C4_HolmArray ==
  p_holm_values # <<>>
    => LET M == args.num_mult_test IN
       /\ Len(all_p_values) = M + 1
       /\ Ascends(all_p_values)
       /\ Len(p_holm_values) = M + 1
       /\ \A i \in 1..(M + 1) :
            /\ REq(p_holm_values[i], HolmClosedForm(all_p_values, M, i))
            /\ RLe(p_holm_values[i], ROne)
       /\ Ascends(p_holm_values)

\* C4 witness: a repetition with M = MaxMultTest whose Holm array has an entry
\* held up by the running maximum and an entry below the cap
C4_Witness ==
  /\ args.num_mult_test = MaxMultTest
  /\ Len(p_holm_values) = MaxMultTest + 1
  /\ \E i \in 1..(MaxMultTest + 1) :
       /\ RLt(RMul(R(MaxMultTest - i + 2, 1), all_p_values[i]), p_holm_values[i])
       /\ RLt(p_holm_values[i], ROne)

RECURSIVE Factorial(_)
Factorial(n) == IF n <= 1 THEN 1 ELSE n * Factorial(n - 1)

RECURSIVE SumOver(_, _)
SumOver(S, n) ==
  IF S = {} THEN 0
  ELSE LET k == CHOOSE x \in S : TRUE IN n \div k + SumOver(S \ {k}, n)

\* c = 1/1 + ... + 1/M over the common denominator M!
Harmonic(M) == R(SumOver(1..M, Factorial(M)), Factorial(M))

RMinOf(a, b) == IF RLt(a, b) THEN a ELSE b

\* C5: for the ascending sequence of M + 1 p-values of a repetition, M >= 1,
\* the BHY array has M + 1 entries, its top entry is the raw p_(M+1), each
\* lower entry i is the smaller of ((M + 1) * c / i) * p_(i) and entry i + 1,
\* and the array is non-decreasing in rank.
C5_BhyArray ==
  (p_bhy_values # <<>> /\ args.num_mult_test >= 1)
    => LET M == args.num_mult_test
           c == Harmonic(M)
       IN  /\ Len(all_p_values) = M + 1
           /\ Ascends(all_p_values)
           /\ Len(p_bhy_values) = M + 1
           /\ REq(p_bhy_values[M + 1], all_p_values[M + 1])
           /\ \A i \in 1..M :
                REq(p_bhy_values[i],
                    RMinOf(RMul(R((M + 1) * c[1], c[2] * i), all_p_values[i]),
                           p_bhy_values[i + 1]))
           /\ Ascends(p_bhy_values)

\* C5 witness: a repetition with M = MaxMultTest in which one BHY entry is its
\* own scaled p-value and another is cut down to the entry above it
C5_Witness ==
  /\ args.num_mult_test = MaxMultTest
  /\ Len(p_bhy_values) = MaxMultTest + 1
  /\ LET c == Harmonic(MaxMultTest)
         scaled(i) == RMul(R((MaxMultTest + 1) * c[1], c[2] * i), all_p_values[i])
     IN  /\ \E i \in 1..MaxMultTest : RLt(p_bhy_values[i], scaled(i))
         /\ \E i \in 1..MaxMultTest :
              /\ REq(p_bhy_values[i], scaled(i))
              /\ RLt(p_bhy_values[i], p_bhy_values[i + 1])

\* the first rank at which the sorted p-values hold p_val
FirstRank ==
  CHOOSE i \in 1..Len(all_p_values) :
    /\ REq(all_p_values[i], p_val)
    /\ \A j \in 1..(i - 1) : ~REq(all_p_values[j], p_val)

\* C6: in every repetition the value recorded for the real strategy, by Holm
\* and by BHY, is the adjusted array's entry at the first rank holding p_val,
\* also when simulated p-values tie with p_val, and the repetition completes
\* without error.
C6_FirstMatchRecorded ==
  (simulation_number >= 1 /\ p_val # NaN)
    => /\ pc # "raised"
       /\ p_holm[simulation_number] = p_holm_values[FirstRank]
       /\ p_bhy[simulation_number] = p_bhy_values[FirstRank]

\* the anchors a correlation of k thousandths lies between, as rows of the table
SegmentOf(k) ==
  IF k < 200 THEN 1 ELSE IF k < 400 THEN 2 ELSE IF k < 600 THEN 3 ELSE 4

\* C7: _parameter_calculation is the reference piecewise function: the row of
\* index 1 for rho < 0 and rho >= 1; the interpolation between the adjacent
\* anchor rows on [0, 0.8], exactly the table row at rho = 0.2 and rho = 0.4;
\* the weights of the 0.6-0.8 segment on [0.8, 1.0).
C7_ParameterReference ==
  pc = "trails"
    => /\ (args.rho < 0 \/ args.rho >= 1000) => parameters = parameter_levels[2]
       /\ args.rho = 200 => parameters = parameter_levels[2]
       /\ args.rho = 400 => parameters = parameter_levels[3]
       /\ (args.rho >= 0 /\ args.rho < 1000)
            => LET lo  == SegmentOf(args.rho)
                   rho == Lit(args.rho, 1000)
               IN  parameters =
                     Interpolate(
                       FDiv(FSub(parameter_levels[lo + 1][1], rho), F02),
                       parameter_levels[lo],
                       FDiv(FSub(rho, parameter_levels[lo][1]), F02),
                       parameter_levels[lo + 1])

\* bounds on the slope of each parameter between anchors, per unit of rho
Slopes == <<2, 7000, 2, 1>>

\* the parameters at a - g and at a + g thousandths differ, in each column, by
\* at most the slope bound times the distance 2g / 1000
CloseAcross(a, g) ==
  LET above == _parameter_calculation(Lit(a + g, 1000))
  IN  \A c \in 1..4 :
        FLe(FAbs(FSub(above[c], parameters[c])),
            FMul(FromInt(Slopes[c]), Lit(2 * g, 1000)))

\* C8 as stated: continuity at every anchor 0, 0.2, 0.4, 0.6, 0.8
C8_ContinuousAtEveryAnchor ==
  pc = "trails"
    => \A a \in Anchors : \A g \in 1..MaxGap :
         args.rho = a - g => CloseAcross(a, g)

\* C8 amended: _parameter_calculation is continuous at the anchors 0.2, 0.4,
\* 0.6 and 0.8: the parameters just below and just above differ by at most a
\* constant times the gap.  (At 0 it jumps from the row of index 1 to row 0.)
C8_ContinuousAtInnerAnchors ==
  pc = "trails"
    => \A a \in Anchors \ {0} : \A g \in 1..MaxGap :
         args.rho = a - g => CloseAcross(a, g)

\* C8 witness: the parameters just below an inner anchor are computed and
\* differ from those just above it
C8_Witness ==
  /\ pc = "trails"
  /\ args.rho = 800 - 1
  /\ parameters # _parameter_calculation(Lit(800 + 1, 1000))
  /\ parameters # parameter_levels[5]

\* C9: repetition k uses the first num_mult_test entries of its panel row
\* (columns 1 to num_mult_test, counting from 1) as the other trials.
C9_FirstColumnsRead ==
  (simulation_number >= 1 /\ args.num_mult_test >= 1)
    => t_values_simulation = [i \in 1..args.num_mult_test |-> t_row[i - 1]]

\* C10: for every positive num_mult_test and every avg_correlation the trial
\* count (floor(num_mult_test / n) + 1) * floor(n + 1) covers the columns read:
\* the slice yields exactly num_mult_test entries, so the sorted sequence has
\* num_mult_test + 1 entries and no index is out of range.
C10_TrailsCoverSlice ==
  (pc = "panel" /\ args.num_mult_test >= 1)
    => /\ num_trails >= args.num_mult_test + 1
       /\ Cardinality(SliceColumns(num_trails, args.num_mult_test))
            = args.num_mult_test

\* C10 witness: a num_mult_test of at least one whole block of n trials, at an
\* interpolated (non-integer) n
C10_Witness ==
  /\ pc = "panel"
  /\ args.rho = 400
  /\ args.num_mult_test = 1476
  /\ num_trails = 2 * 1476

\* the five codes the comparisons of lines 142-150 and 183-191 recognise
RecognizedCodes == {"D", "W", "M", "Q", "A"}

\* C11: for a sampling frequency that is none of the five recognised codes,
\* times_per_year is 1 as for 'A', and the monthly-observation count computed
\* by _monthly_observations equals the count for 'A' with the same num_obs.
C11_UnrecognizedIsAnnual ==
  (pc = "panel" /\ args.sampling_frequency \notin RecognizedCodes)
    => /\ times_per_year(args.sampling_frequency) = 1
       /\ times_per_year(args.sampling_frequency) = times_per_year("A")
       /\ monthly_obs = _monthly_observations(args.num_obs, "A")

====
